---- MODULE Spec2Model ----
(***************************************************************************)
(* Model of src/src/App.js: the timesheet component.                       *)
(*                                                                         *)
(* The component is a React function component.  Its state lives in        *)
(* useState cells; every setState is followed by a render, and a render    *)
(* whose effect dependencies changed schedules the day-recompute effect    *)
(* (App.js 132-170), which React runs before it dispatches the next        *)
(* discrete user event.  The model keeps one variable per useState cell,   *)
(* the values captured by the last render (currentDayData), and the        *)
(* position of the scheduled effect (effectPending).                       *)
(*                                                                         *)
(* Clock times are strings as delivered by <input type="time">: sequences  *)
(* of one-character strings, "" being the empty sequence.  Dates are ISO   *)
(* strings of fixed width in the program, compared with <= and sorted as   *)
(* strings; the model uses the day number, which has the same order.       *)
(***************************************************************************)
EXTENDS Integers, Sequences, FiniteSets, TLC

(***************************************************************************)
(* Bounds of the model.                                                    *)
(***************************************************************************)
MaxDate == 2
MaxId == 4
MaxStoreId == 6
MaxDayId == 4
MaxCapId == 13
MaxRequest == 2
MaxReportId == 7
MaxMinutes == 2000
MaxNameLen == 3

Dates == 1..MaxDate

(***************************************************************************)
(* JavaScript values.                                                      *)
(***************************************************************************)
NaN == -1000000
Undefined == -2000000

EmptyStr == << >>
T0000 == <<"0", "0", ":", "0", "0">>
T0800 == <<"0", "8", ":", "0", "0">>
T1200 == <<"1", "2", ":", "0", "0">>
T1201 == <<"1", "2", ":", "0", "1">>
T1400 == <<"1", "4", ":", "0", "0">>
T1401 == <<"1", "4", ":", "0", "1">>
T0830 == <<"0", "8", ":", "3", "0">>
T1630 == <<"1", "6", ":", "3", "0">>
T1700 == <<"1", "7", ":", "0", "0">>
JobNo == <<"J", "7">>
JobLoc == <<"L">>

TimeFields == {"travelStartTime", "workStartTime", "workFinishTime", "travelHomeTime"}
TextFields == {"jobNumber", "jobLocation"}

(***************************************************************************)
(* Time Utilities (App.js 4-8).                                            *)
(***************************************************************************)
DigitValue(c) ==
    CASE c = "0" -> 0 [] c = "1" -> 1 [] c = "2" -> 2 [] c = "3" -> 3
      [] c = "4" -> 4 [] c = "5" -> 5 [] c = "6" -> 6 [] c = "7" -> 7
      [] c = "8" -> 8 [] c = "9" -> 9 [] OTHER -> NaN

\* The value of the decimal digits s[1..i].
RECURSIVE DecimalValue(_, _)
DecimalValue(s, i) ==
    IF i = 0 THEN 0 ELSE 10 * DecimalValue(s, i - 1) + DigitValue(s[i])

\* Number(str) on strings of digits and other characters: "" is 0, a digit
\* string is its value, anything else is NaN.
Number(s) ==
    IF \E i \in DOMAIN s : DigitValue(s[i]) = NaN THEN NaN
    ELSE DecimalValue(s, Len(s))

\* The positions of the separator, and the k-th of them.
SepPositions(s, sep) == {i \in DOMAIN s : s[i] = sep}

NthSep(s, sep, k) ==
    CHOOSE i \in SepPositions(s, sep) :
        Cardinality({j \in SepPositions(s, sep) : j < i}) = k - 1

\* String.prototype.split(sep) for a one-character separator.
Split(s, sep) ==
    [k \in 1..(Cardinality(SepPositions(s, sep)) + 1) |->
        SubSeq(s,
               IF k = 1 THEN 1 ELSE NthSep(s, sep, k - 1) + 1,
               IF k = Cardinality(SepPositions(s, sep)) + 1
               THEN Len(s) ELSE NthSep(s, sep, k) - 1)]

\* F applied to the value of v, v being evaluated once.
Once(F(_), v) == CHOOSE r \in {F(x) : x \in {v}} : TRUE

HoursTimes100PlusMinutes(parts) ==
    IF Len(parts) < 2 THEN NaN
    ELSE IF Number(parts[1]) = NaN \/ Number(parts[2]) = NaN THEN NaN
    ELSE Number(parts[1]) * 100 + Number(parts[2])

\* const [hours, minutes] = parts.map(Number); hours * 60 + minutes, in IEEE
\* arithmetic: NaN (and a missing minutes part) is absorbing.
HoursTimes60PlusMinutes(parts) ==
    IF Len(parts) < 2 THEN NaN
    ELSE IF Number(parts[1]) = NaN \/ Number(parts[2]) = NaN THEN NaN
    ELSE Number(parts[1]) * 60 + Number(parts[2])

timeToMinutes(timeString) ==
    IF timeString = EmptyStr THEN 0
    ELSE Once(HoursTimes60PlusMinutes, Split(timeString, ":"))

(***************************************************************************)
(* Job Model (App.js 18-27).                                               *)
(***************************************************************************)
createInitialJob(uuid) ==
    [id |-> uuid,
     jobNumber |-> EmptyStr,
     jobLocation |-> EmptyStr,
     travelStartTime |-> EmptyStr,
     workStartTime |-> EmptyStr,
     workFinishTime |-> EmptyStr,
     travelHomeTime |-> EmptyStr,
     totalTimeWorkedMinutes |-> 0]

\* Intl weekday of the date, as the index of the weekday.
getDayOfWeek(dateString) == dateString % 7

\* Math.min(...times) and Math.max(...times) on a non-empty array
MathMin(s) == CHOOSE m \in {s[i] : i \in DOMAIN s} : \A i \in DOMAIN s : m <= s[i]

MathMax(s) == CHOOSE m \in {s[i] : i \in DOMAIN s} : \A i \in DOMAIN s : s[i] <= m

\* Array.prototype.filter(t => t > 0); NaN > 0 is false.
PositiveOnly(s) == SelectSeq(s, LAMBDA t : t # NaN /\ t > 0)

JobTimes(job) ==
    <<timeToMinutes(job.travelStartTime),
      timeToMinutes(job.workStartTime),
      timeToMinutes(job.workFinishTime),
      timeToMinutes(job.travelHomeTime)>>

LastMinusFirst(times) ==
    IF Len(times) < 2 THEN 0 ELSE times[Len(times)] - times[1]

\* maxTime - minTime, or 0 with fewer than two times (121-128)
MaxMinusMin(times) ==
    IF Len(times) < 2 THEN 0 ELSE MathMax(times) - MathMin(times)

calculateJobTotalInFieldOrder(job) == Once(LastMinusFirst, PositiveOnly(JobTimes(job)))

calculateJobTotalWorkOnly(job) ==
    IF timeToMinutes(job.workStartTime) > 0 /\ timeToMinutes(job.workFinishTime) > 0
    THEN timeToMinutes(job.workFinishTime) - timeToMinutes(job.workStartTime)
    ELSE 0

calculateJobTotal(job) == Once(MaxMinusMin, PositiveOnly(JobTimes(job)))

(***************************************************************************)
(* Day Aggregation: the body of the recompute effect (App.js 133-151).     *)
(***************************************************************************)
\* The sum the forEach accumulates over jobs[i..] (133-137)
RECURSIVE SumJobTotalsFrom(_, _)
SumJobTotalsFrom(jobs, i) ==
    IF i > Len(jobs) THEN 0
    ELSE calculateJobTotal(jobs[i]) + SumJobTotalsFrom(jobs, i + 1)

SumJobTotals(jobs) == SumJobTotalsFrom(jobs, 1)

currentNetMinutesFlat(sumTotalMinutes, isOnCall) ==
    LET afterTravel == IF sumTotalMinutes > 6 * 60 /\ ~isOnCall
                       THEN sumTotalMinutes - 60 ELSE sumTotalMinutes
    IN  afterTravel - 30

\* currentNetMinutes before the clamp (139-149); sumTotalMinutes / 60 > 6 is
\* sumTotalMinutes > 360 for an integer sum.
currentNetMinutes(sumTotalMinutes, isOnCall) ==
    LET afterTravel == IF sumTotalMinutes > 6 * 60 /\ ~isOnCall
                       THEN sumTotalMinutes - 60 ELSE sumTotalMinutes
    IN  IF sumTotalMinutes > 4 * 60 THEN afterTravel - 30 ELSE afterTravel

NetMinutesInclusive(sumTotalMinutes, isOnCall) ==
    LET afterTravel == IF sumTotalMinutes >= 6 * 60 /\ ~isOnCall
                       THEN sumTotalMinutes - 60 ELSE sumTotalMinutes
        afterLunch == IF sumTotalMinutes >= 4 * 60
                      THEN afterTravel - 30 ELSE afterTravel
    IN  IF afterLunch > 0 THEN afterLunch ELSE 0

\* Math.max(0, currentNetMinutes) (151)
NetMinutes(sumTotalMinutes, isOnCall) ==
    LET net == currentNetMinutes(sumTotalMinutes, isOnCall)
    IN  IF net > 0 THEN net ELSE 0

(***************************************************************************)
(* Timesheet Store: weeklyData is a JavaScript object keyed by date.  Its  *)
(* own keys are enumerated in insertion order, so the model keeps the      *)
(* entries as a sequence in insertion order.                               *)
(***************************************************************************)
Has(wd, date) == \E i \in DOMAIN wd : wd[i].key = date

Get(wd, date) == wd[CHOOSE i \in DOMAIN wd : wd[i].key = date].val

PutEverywhere(wd, date, val) ==
    IF Has(wd, date)
    THEN [i \in DOMAIN wd |-> [key |-> wd[i].key, val |-> val]]
    ELSE Append([i \in DOMAIN wd |-> [key |-> wd[i].key, val |-> val]],
                [key |-> date, val |-> val])

PutWithoutSpread(wd, date, val) == << [key |-> date, val |-> val] >>

\* { ...wd, [date]: val }
Put(wd, date, val) ==
    IF Has(wd, date)
    THEN [i \in DOMAIN wd |-> IF wd[i].key = date
                              THEN [key |-> date, val |-> val] ELSE wd[i]]
    ELSE Append(wd, [key |-> date, val |-> val])

\* Object.keys(wd)
ObjectKeys(wd) == [i \in DOMAIN wd |-> wd[i].key]

DefaultJobsSameId(uuid) ==
    <<createInitialJob(uuid), createInitialJob(uuid), createInitialJob(uuid)>>

\* Array(3).fill(null).map(() => createInitialJob()), with the three ids drawn
DefaultJobs(uuid) ==
    <<createInitialJob(uuid), createInitialJob(uuid + 1), createInitialJob(uuid + 2)>>

\* The record a render derives: the stored one, or a fresh default.
Render(wd, date, uuid) ==
    IF Has(wd, date) THEN Get(wd, date)
    ELSE [jobs |-> DefaultJobs(uuid),
          dayOfWeek |-> getDayOfWeek(date),
          totalHours |-> 0,
          netHours |-> 0,
          isOnCall |-> FALSE]

(***************************************************************************)
(* The functional updates the handlers pass to setWeeklyData.              *)
(***************************************************************************)
EmptyDayData(date) ==
    [jobs |-> << >>,
     dayOfWeek |-> getDayOfWeek(date),
     totalHours |-> 0,
     netHours |-> 0,
     isOnCall |-> FALSE]

DayDataOrEmpty(prev, date) == IF Has(prev, date) THEN Get(prev, date) ELSE EmptyDayData(date)

SetField(job, field, value) == [job EXCEPT ![field] = value]

editJobNoRecompute(job, field, value) == SetField(job, field, value)

\* { ...job, [field]: value } followed by the duration recompute (206-208)
editJob(job, field, value) ==
    LET newJob == SetField(job, field, value)
    IN  [newJob EXCEPT !.totalTimeWorkedMinutes = calculateJobTotal(newJob)]

jobInputChangeUpdateAllJobs(prev, date, jobId, field, value) ==
    LET dayData == DayDataOrEmpty(prev, date)
        updatedJobs == [i \in DOMAIN dayData.jobs |->
                          editJob(dayData.jobs[i], field, value)]
    IN  Put(prev, date, [dayData EXCEPT !.jobs = updatedJobs])

jobInputChangeUpdate(prev, date, jobId, field, value) ==
    LET dayData == DayDataOrEmpty(prev, date)
        updatedJobs == [i \in DOMAIN dayData.jobs |->
                          IF dayData.jobs[i].id = jobId
                          THEN editJob(dayData.jobs[i], field, value)
                          ELSE dayData.jobs[i]]
    IN  Put(prev, date, [dayData EXCEPT !.jobs = updatedJobs])

CanAddJobNoLimit(jobs) == TRUE

CanAddJob(jobs) == Len(jobs) < 12

addJobUpdate(prev, date, uuid) ==
    LET dayData == DayDataOrEmpty(prev, date)
    IN  IF CanAddJob(dayData.jobs)
        THEN Put(prev, date,
                 [dayData EXCEPT !.jobs = Append(dayData.jobs, createInitialJob(uuid))])
        ELSE prev

removeJobUpdate(prev, date, jobId) ==
    LET dayData == IF Has(prev, date) THEN Get(prev, date)
                   ELSE [jobs |-> << >>, dayOfWeek |-> Undefined,
                         totalHours |-> Undefined, netHours |-> Undefined,
                         isOnCall |-> FALSE]
        updatedJobs == SelectSeq(dayData.jobs, LAMBDA job : job.id # jobId)
    IN  Put(prev, date, [dayData EXCEPT !.jobs = updatedJobs])

onCallUpdate(prev, date, value, uuid) ==
    LET dayData == IF Has(prev, date) THEN Get(prev, date)
                   ELSE [jobs |-> DefaultJobs(uuid), dayOfWeek |-> Undefined,
                         totalHours |-> Undefined, netHours |-> Undefined,
                         isOnCall |-> FALSE]
    IN  Put(prev, date, [dayData EXCEPT !.dayOfWeek = getDayOfWeek(date),
                                        !.isOnCall = value])

effectUpdateKeepTotals(prev, date, jobs, isOnCall) ==
    LET old == IF Has(prev, date) THEN Get(prev, date) ELSE EmptyDayData(date)
    IN  Put(prev, date, [old EXCEPT !.jobs = jobs, !.isOnCall = isOnCall])

\* The record the recompute effect stores (139-163)
RecomputedDay(date, jobs, isOnCall, sumTotalMinutes) ==
    [jobs |-> jobs,
     dayOfWeek |-> getDayOfWeek(date),
     totalHours |-> sumTotalMinutes,
     netHours |-> NetMinutes(sumTotalMinutes, isOnCall),
     isOnCall |-> isOnCall]

\* The setWeeklyData of the recompute effect (133-164): every field of the
\* day is overwritten, so nothing of the previous record survives the spread.
effectUpdate(prev, date, jobs, isOnCall) ==
    Put(prev, date,
        Once(LAMBDA sumTotalMinutes : RecomputedDay(date, jobs, isOnCall, sumTotalMinutes),
             SumJobTotals(jobs)))

(***************************************************************************)
(* formatDecimalHours (App.js 11-15).  minutes / 60 has a fractional part  *)
(* of hundredths that is 0, 1/3 or 2/3 of a hundredth away from a multiple *)
(* of a hundredth, so toFixed(2) rounds to the nearest hundredth without   *)
(* ties.                                                                   *)
(***************************************************************************)
DigitChar(d) ==
    CASE d = 0 -> "0" [] d = 1 -> "1" [] d = 2 -> "2" [] d = 3 -> "3"
      [] d = 4 -> "4" [] d = 5 -> "5" [] d = 6 -> "6" [] d = 7 -> "7"
      [] d = 8 -> "8" [] d = 9 -> "9"

RECURSIVE DecimalDigits(_)
DecimalDigits(n) ==
    IF n < 10 THEN <<DigitChar(n)>>
    ELSE Append(DecimalDigits(n \div 10), DigitChar(n % 10))

formatDecimalHoursTruncated(minutes) ==
    IF minutes = NaN \/ minutes = Undefined \/ minutes < 0
    THEN <<"0", ".", "0", "0">>
    ELSE LET hundredths == (10 * minutes) \div 6
         IN  DecimalDigits(hundredths \div 100)
               \o <<".", DigitChar((hundredths \div 10) % 10), DigitChar(hundredths % 10)>>

formatDecimalHours(minutes) ==
    IF minutes = NaN \/ minutes = Undefined \/ minutes < 0
    THEN <<"0", ".", "0", "0">>
    ELSE LET hundredths == (10 * minutes + 3) \div 6
         IN  DecimalDigits(hundredths \div 100)
               \o <<".", DigitChar((hundredths \div 10) % 10), DigitChar(hundredths % 10)>>

(***************************************************************************)
(* Weekly Aggregation (App.js 380-418, 538-579).                           *)
(***************************************************************************)
\* x || 0 on a number
OrZero(x) == IF x = Undefined \/ x = NaN THEN 0 ELSE x

InRangeExclusive(dateStr, startDate, endDate) == dateStr > startDate /\ dateStr < endDate

InRange(dateStr, startDate, endDate) == dateStr >= startDate /\ dateStr <= endDate

RECURSIVE InsertSorted(_, _)
InsertSorted(x, s) ==
    IF s = << >> THEN <<x>>
    ELSE IF x <= Head(s) THEN <<x>> \o s
    ELSE <<Head(s)>> \o InsertSorted(x, Tail(s))

RECURSIVE SortAscending(_)
SortAscending(s) ==
    IF s = << >> THEN << >>
    ELSE InsertSorted(Head(s), SortAscending(Tail(s)))

NoSort(keys) == keys

\* Array.prototype.sort() on the date strings
SortKeys(keys) == SortAscending(keys)

\* Object.keys(weeklyData).filter(...).sort() of the weekly prompt (382-384)
datesToReport(wd, startDate, endDate) ==
    SortKeys(SelectSeq(ObjectKeys(wd), LAMBDA dateStr : InRange(dateStr, startDate, endDate)))

datesToReportCsvExclusive(wd, startDate, endDate) ==
    SortKeys(SelectSeq(ObjectKeys(wd),
                       LAMBDA dateStr : InRangeExclusive(dateStr, startDate, endDate)))

\* Object.keys(weeklyData).filter(...).sort() of the weekly export (538-540)
datesToReportCsv(wd, startDate, endDate) ==
    SortKeys(SelectSeq(ObjectKeys(wd), LAMBDA dateStr : InRange(dateStr, startDate, endDate)))

\* The totals of the weekly prompt, accumulated in the loop that writes the
\* days: total += (dayData.totalHours || 0) (380-416)
RECURSIVE SumOver(_, _, _)
SumOver(wd, dates, field) ==
    IF dates = << >> THEN 0
    ELSE OrZero(Get(wd, Head(dates))[field]) + SumOver(wd, Tail(dates), field)

\* The totals of the weekly export, accumulated in a loop of their own after
\* the rows: total += (weeklyData[date]?.totalHours || 0) (572-577)
RECURSIVE CsvSumOver(_, _, _)
CsvSumOver(wd, dates, field) ==
    IF dates = << >> THEN 0
    ELSE (IF Has(wd, Head(dates)) THEN OrZero(Get(wd, Head(dates))[field]) ELSE 0)
            + CsvSumOver(wd, Tail(dates), field)

IsEmptyJob(job) ==
    /\ job.jobNumber = EmptyStr
    /\ job.jobLocation = EmptyStr
    /\ job.travelStartTime = EmptyStr
    /\ job.workStartTime = EmptyStr
    /\ job.workFinishTime = EmptyStr
    /\ job.travelHomeTime = EmptyStr

NoEntries(jobs) == jobs = << >> \/ \A i \in DOMAIN jobs : IsEmptyJob(jobs[i])

YesNo(b) == IF b THEN "Yes" ELSE "No"

CsvDayRowsRepeated(wd, date) ==
    LET dayData == Get(wd, date)
    IN  IF NoEntries(dayData.jobs)
        THEN << [day |-> getDayOfWeek(date), date |-> date,
                 total |-> formatDecimalHours(OrZero(dayData.totalHours)),
                 net |-> formatDecimalHours(OrZero(dayData.netHours)),
                 onCall |-> YesNo(dayData.isOnCall),
                 hasJob |-> FALSE, jobId |-> 0, jobHours |-> EmptyStr] >>
        ELSE [index \in DOMAIN dayData.jobs |->
                [day |-> getDayOfWeek(date),
                 date |-> date,
                 total |-> formatDecimalHours(OrZero(dayData.totalHours)),
                 net |-> formatDecimalHours(OrZero(dayData.netHours)),
                 onCall |-> YesNo(dayData.isOnCall),
                 hasJob |-> TRUE, jobId |-> dayData.jobs[index].id,
                 jobHours |-> formatDecimalHours(dayData.jobs[index].totalTimeWorkedMinutes)]]

\* The rows generateCsvReport emits for one date (546-567)
CsvDayRows(wd, date) ==
    LET dayData == Get(wd, date)
    IN  IF NoEntries(dayData.jobs)
        THEN << [day |-> getDayOfWeek(date), date |-> date,
                 total |-> formatDecimalHours(OrZero(dayData.totalHours)),
                 net |-> formatDecimalHours(OrZero(dayData.netHours)),
                 onCall |-> YesNo(dayData.isOnCall),
                 hasJob |-> FALSE, jobId |-> 0, jobHours |-> EmptyStr] >>
        ELSE [index \in DOMAIN dayData.jobs |->
                LET isFirstJobOfDay == index = 1
                    job == dayData.jobs[index]
                IN  [day |-> IF isFirstJobOfDay THEN getDayOfWeek(date) ELSE -1,
                     date |-> IF isFirstJobOfDay THEN date ELSE -1,
                     total |-> IF isFirstJobOfDay
                               THEN formatDecimalHours(OrZero(dayData.totalHours)) ELSE EmptyStr,
                     net |-> IF isFirstJobOfDay
                             THEN formatDecimalHours(OrZero(dayData.netHours)) ELSE EmptyStr,
                     onCall |-> IF isFirstJobOfDay THEN YesNo(dayData.isOnCall) ELSE "",
                     hasJob |-> TRUE, jobId |-> job.id,
                     jobHours |-> formatDecimalHours(job.totalTimeWorkedMinutes)]]

RECURSIVE CsvRows(_, _)
CsvRows(wd, dates) ==
    IF dates = << >> THEN << >>
    ELSE CsvDayRows(wd, Head(dates)) \o CsvRows(wd, Tail(dates))

\* The weekly export (526-590)
WeeklyCsv(wd, startDate, endDate) ==
    LET dates == datesToReportCsv(wd, startDate, endDate)
        totalWeeklyHours == CsvSumOver(wd, dates, "totalHours")
        totalWeeklyNetHours == CsvSumOver(wd, dates, "netHours")
    IN  [kind |-> "weeklyCsv",
         startDate |-> startDate,
         endDate |-> endDate,
         dates |-> dates,
         rows |-> CsvRows(wd, dates),
         totalWeeklyHours |-> totalWeeklyHours,
         totalWeeklyNetHours |-> totalWeeklyNetHours,
         totalLine |-> formatDecimalHours(totalWeeklyHours),
         netLine |-> formatDecimalHours(totalWeeklyNetHours)]

\* The weekly prompt (364-426)
WeeklyPrompt(wd, startDate, endDate) ==
    LET dates == datesToReport(wd, startDate, endDate)
        totalWeeklyHours == SumOver(wd, dates, "totalHours")
        totalWeeklyNetHours == SumOver(wd, dates, "netHours")
    IN  [kind |-> "weeklyPrompt",
         startDate |-> startDate,
         endDate |-> endDate,
         dates |-> dates,
         totalWeeklyHours |-> totalWeeklyHours,
         totalWeeklyNetHours |-> totalWeeklyNetHours,
         totalLine |-> formatDecimalHours(totalWeeklyHours),
         netLine |-> formatDecimalHours(totalWeeklyNetHours)]

(***************************************************************************)
(* Header values and the daily assemblers (App.js 66-68, 266-316, 461-522). *)
(***************************************************************************)
NameAl == <<"A", "l">>
NameWithSpace == <<"A", " ", "B">>
TruckNo == <<"T", "7">>
Recipient == <<"p", "@", "o">>

NA == <<"N", "/", "A">>
Employee == <<"E", "m", "p", "l", "o", "y", "e", "e">>

\* s || d on a string
OrDefault(s, d) == IF s = EmptyStr THEN d ELSE s

FilenameCharsCaseSensitive ==
    {"a", "b", "c", "d", "e", "f", "g", "h", "i", "j", "k", "l", "m",
     "n", "o", "p", "q", "r", "s", "t", "u", "v", "w", "x", "y", "z",
     "0", "1", "2", "3", "4", "5", "6", "7", "8", "9", "_", ".", "-"}

\* The characters /[^a-z0-9_.-]/gi leaves in place
FilenameChars ==
    {"a", "b", "c", "d", "e", "f", "g", "h", "i", "j", "k", "l", "m",
     "n", "o", "p", "q", "r", "s", "t", "u", "v", "w", "x", "y", "z",
     "A", "B", "C", "D", "E", "F", "G", "H", "I", "J", "K", "L", "M",
     "N", "O", "P", "Q", "R", "S", "T", "U", "V", "W", "X", "Y", "Z",
     "0", "1", "2", "3", "4", "5", "6", "7", "8", "9", "_", ".", "-"}

sanitizeFilename(name) ==
    [i \in DOMAIN name |-> IF name[i] \in FilenameChars THEN name[i] ELSE "_"]

\* The header lines of a prompt (286-287, 373-374)
PromptHeader(name, truck) ==
    [employeeName |-> OrDefault(name, NA), truckNumber |-> OrDefault(truck, NA)]

\* The header lines and the file name of an export (486-487, 517, 531-532, 585)
CsvHeader(name, truck) ==
    [employeeName |-> OrDefault(name, EmptyStr),
     truckNumber |-> OrDefault(truck, EmptyStr),
     filename |-> sanitizeFilename(OrDefault(name, Employee))]

\* The block a prompt writes for one job that has an entry (299-308)
PromptJob(job) ==
    [jobNumber |-> OrDefault(job.jobNumber, NA),
     jobLocation |-> OrDefault(job.jobLocation, NA),
     travelStartTime |-> OrDefault(job.travelStartTime, NA),
     workStartTime |-> OrDefault(job.workStartTime, NA),
     workFinishTime |-> OrDefault(job.workFinishTime, NA),
     travelHomeTime |-> OrDefault(job.travelHomeTime, NA),
     hours |-> formatDecimalHours(job.totalTimeWorkedMinutes)]

PromptJobsAll(jobs) == [i \in DOMAIN jobs |-> PromptJob(jobs[i])]

PromptJobs(jobs) ==
    LET entered == SelectSeq(jobs, LAMBDA job : ~IsEmptyJob(job))
    IN  [i \in DOMAIN entered |-> PromptJob(entered[i])]

\* The daily prompt (277-316), assembled from the values of the last render
DailyPrompt(date, dayData) ==
    [kind |-> "dailyPrompt",
     date |-> date,
     dayOfWeek |-> dayData.dayOfWeek,
     onCall |-> YesNo(dayData.isOnCall),
     noEntries |-> NoEntries(dayData.jobs),
     jobs |-> IF NoEntries(dayData.jobs) THEN << >> ELSE PromptJobs(dayData.jobs),
     totalLine |-> formatDecimalHours(dayData.totalHours),
     netLine |-> formatDecimalHours(dayData.netHours)]

\* The row the daily export writes for one job (500-506)
DailyCsvRow(job) ==
    [jobNumber |-> job.jobNumber,
     jobLocation |-> job.jobLocation,
     travelStartTime |-> job.travelStartTime,
     workStartTime |-> job.workStartTime,
     workFinishTime |-> job.workFinishTime,
     travelHomeTime |-> job.travelHomeTime,
     hours |-> formatDecimalHours(job.totalTimeWorkedMinutes)]

\* The daily export (481-522)
DailyCsv(date, dayData) ==
    [kind |-> "dailyCsv",
     date |-> date,
     dayOfWeek |-> dayData.dayOfWeek,
     onCall |-> YesNo(dayData.isOnCall),
     noEntries |-> NoEntries(dayData.jobs),
     rows |-> IF NoEntries(dayData.jobs) THEN << >>
              ELSE [i \in DOMAIN dayData.jobs |-> DailyCsvRow(dayData.jobs[i])],
     totalLine |-> formatDecimalHours(dayData.totalHours),
     netLine |-> formatDecimalHours(dayData.netHours)]

\* The mailto link (471-476)
MailtoLink(recipient, name, startDate, endDate, report) ==
    [kind |-> "mailto",
     recipient |-> recipient,
     employeeName |-> OrDefault(name, NA),
     startDate |-> startDate,
     endDate |-> endDate,
     body |-> report]

(***************************************************************************)
(* State of the component (App.js 73-94), the values captured by the last  *)
(* render (97-108) and the callbacks in flight.                            *)
(***************************************************************************)
VARIABLES
    weeklyData,             \* useState({}) : entries [key, val] in insertion order
    selectedDate,           \* useState(getTodayDate())
    weeklyReportStartDate,  \* useState(getMondayOfCurrentWeek())
    weeklyReportEndDate,    \* useState(getSundayOfCurrentWeek())
    generatedDailyReport,   \* useState('')
    generatedWeeklyReport,  \* useState('')
    isGeneratingReport,     \* useState(false)
    reportError,            \* useState('')
    currentDayData,         \* the record derived by the last render
    effectPending,          \* the recompute effect is scheduled and has not run
    employeeName,           \* useState('')
    truckNumber,            \* useState('')
    recipientEmail,         \* useState('')
    pendingFetch,           \* the summarization requests awaiting their responses
    requestsIssued,         \* the kinds of the summarization requests issued, in order
    nextId,                 \* the next value crypto.randomUUID() returns
    out,                    \* what the last step emitted (console, download, request)
    arg,                    \* the argument of a function applied on its own
    result                  \* and its result

vars == <<weeklyData, selectedDate, weeklyReportStartDate, weeklyReportEndDate,
          generatedDailyReport, generatedWeeklyReport, isGeneratingReport,
          reportError, currentDayData, effectPending, pendingFetch, nextId, out,
          arg, result, employeeName, truckNumber, recipientEmail, requestsIssued>>

reportVars == <<generatedDailyReport, generatedWeeklyReport, isGeneratingReport,
                reportError, pendingFetch, requestsIssued>>

headerVars == <<employeeName, truckNumber, recipientEmail>>

rangeVars == <<weeklyReportStartDate, weeklyReportEndDate>>

callVars == <<arg, result>>

NoCall == [done |-> FALSE]

NoOutput == [kind |-> "none"]
NoFetch == {}

\* The text of the response to request n.
ReportText(n) == <<"summary of request", n>>

ErrUnexpected == "Failed to generate weekly report. Unexpected API response structure or empty content."
ErrThrown == "Error generating weekly report: "
ErrDailyUnexpected == "Failed to generate daily report. Unexpected API response structure or empty content."
ErrDailyThrown == "Error generating daily report: "
ErrNoReport == "Please generate the weekly report first before sharing."
ErrNoRecipient == "Please enter a recipient email address to share the report."

currentJobs == currentDayData.jobs
currentIsOnCall == currentDayData.isOnCall
CurrentJobIds == {currentJobs[i].id : i \in DOMAIN currentJobs}

Mounted ==
    /\ weeklyData = << >>
    /\ selectedDate \in Dates
    /\ weeklyReportStartDate \in Dates
    /\ weeklyReportEndDate \in Dates
    /\ weeklyReportStartDate < weeklyReportEndDate
    /\ employeeName = EmptyStr
    /\ truckNumber = EmptyStr
    /\ recipientEmail = EmptyStr
    /\ generatedDailyReport = EmptyStr
    /\ generatedWeeklyReport = EmptyStr
    /\ isGeneratingReport = FALSE
    /\ reportError = ""
    /\ requestsIssued = << >>
    /\ currentDayData = Render(<< >>, selectedDate, 1)
    /\ effectPending = TRUE
    /\ pendingFetch = NoFetch
    /\ nextId = 4
    /\ out = NoOutput

Init ==
    /\ Mounted
    /\ arg = NoCall
    /\ result = NoCall

DayInit ==
    /\ Init
    /\ selectedDate = 1
    /\ weeklyReportStartDate = 1
    /\ weeklyReportEndDate = MaxDate

(***************************************************************************)
(* A state update followed by the render it causes.  jobsArrayReplaced     *)
(* says whether the jobs array of the selected day is a new object (the    *)
(* effect compares its dependencies with Object.is).  A date that is not   *)
(* stored renders fresh default jobs, which is always a new array.         *)
(***************************************************************************)
CommitStaleRender(wd, date, uuid, jobsArrayReplaced) ==
    /\ weeklyData' = wd
    /\ selectedDate' = date
    /\ currentDayData' = IF date = selectedDate THEN currentDayData
                          ELSE Render(weeklyData', selectedDate', uuid)
    /\ nextId' = IF Has(weeklyData', selectedDate') THEN uuid ELSE uuid + 3
    /\ effectPending' = \/ jobsArrayReplaced
                        \/ ~Has(weeklyData', selectedDate')
                        \/ selectedDate' # selectedDate
                        \/ currentDayData'.isOnCall # currentIsOnCall

Commit(wd, date, uuid, jobsArrayReplaced) ==
    /\ weeklyData' = wd
    /\ selectedDate' = date
    /\ currentDayData' = Render(weeklyData', selectedDate', uuid)
    /\ nextId' = IF Has(weeklyData', selectedDate') THEN uuid ELSE uuid + 3
    /\ effectPending' = \/ jobsArrayReplaced
                        \/ ~Has(weeklyData', selectedDate')
                        \/ selectedDate' # selectedDate
                        \/ currentDayData'.isOnCall # currentIsOnCall

EffectCopiesJobs ==
    /\ effectPending
    /\ Commit(effectUpdate(weeklyData, selectedDate, currentJobs, currentIsOnCall),
              selectedDate, nextId, TRUE)
    /\ generatedDailyReport' = EmptyStr
    /\ generatedWeeklyReport' = EmptyStr
    /\ reportError' = ""
    /\ out' = NoOutput
    /\ UNCHANGED <<isGeneratingReport, pendingFetch, requestsIssued, rangeVars, callVars,
                   headerVars>>

\* useEffect (132-170)
Effect ==
    /\ effectPending
    /\ Commit(effectUpdate(weeklyData, selectedDate, currentJobs, currentIsOnCall),
              selectedDate, nextId, FALSE)
    /\ generatedDailyReport' = EmptyStr
    /\ generatedWeeklyReport' = EmptyStr
    /\ reportError' = ""
    /\ out' = NoOutput
    /\ UNCHANGED <<isGeneratingReport, pendingFetch, requestsIssued, rangeVars, callVars,
                   headerVars>>

HandleJobInputChangeWhenIdle(jobId, field, value) ==
    /\ ~effectPending
    /\ ~isGeneratingReport
    /\ jobId \in CurrentJobIds
    /\ Commit(jobInputChangeUpdate(weeklyData, selectedDate, jobId, field, value),
              selectedDate, nextId, TRUE)
    /\ out' = NoOutput
    /\ UNCHANGED <<reportVars, rangeVars, callVars, headerVars>>

\* handleJobInputChange (194-221), called from the rows of currentJobs (674-722)
HandleJobInputChange(jobId, field, value) ==
    /\ ~effectPending
    /\ jobId \in CurrentJobIds
    /\ Commit(jobInputChangeUpdate(weeklyData, selectedDate, jobId, field, value),
              selectedDate, nextId, TRUE)
    /\ out' = NoOutput
    /\ UNCHANGED <<reportVars, rangeVars, callVars, headerVars>>

\* handleAddJob (224-248)
HandleAddJob(maxId) ==
    /\ ~effectPending
    /\ nextId <= maxId
    /\ LET wd == addJobUpdate(weeklyData, selectedDate, nextId)
       IN  IF wd = weeklyData
           THEN /\ out' = [kind |-> "console.log", text |-> "Maximum 12 jobs allowed per day."]
                /\ UNCHANGED <<weeklyData, selectedDate, currentDayData, nextId, effectPending>>
           ELSE /\ out' = NoOutput
                /\ Commit(wd, selectedDate, nextId + 1, TRUE)
    /\ UNCHANGED <<reportVars, rangeVars, callVars, headerVars>>

\* handleRemoveJob (251-263), offered by a row only when currentJobs.length > 1 (729)
HandleRemoveJob(jobId) ==
    /\ ~effectPending
    /\ jobId \in CurrentJobIds
    /\ Len(currentJobs) > 1
    /\ Commit(removeJobUpdate(weeklyData, selectedDate, jobId), selectedDate, nextId, TRUE)
    /\ out' = NoOutput
    /\ UNCHANGED <<reportVars, rangeVars, callVars, headerVars>>

\* handleHeaderInputChange('isOnCall', e.target.checked) (175-191, 650-651)
HandleOnCallChange ==
    /\ ~effectPending
    /\ Commit(onCallUpdate(weeklyData, selectedDate, ~currentIsOnCall, nextId),
              selectedDate, nextId, FALSE)
    /\ out' = NoOutput
    /\ UNCHANGED <<reportVars, rangeVars, callVars, headerVars>>

\* setSelectedDate (631)
SelectDate(date, maxId) ==
    /\ ~effectPending
    /\ date # selectedDate
    /\ Has(weeklyData, date) \/ nextId + 2 <= maxId
    /\ Commit(weeklyData, date, nextId, TRUE)
    /\ out' = NoOutput
    /\ UNCHANGED <<reportVars, rangeVars, callVars, headerVars>>

\* setWeeklyReportStartDate (827)
SetWeeklyReportStartDate(date) ==
    /\ ~effectPending
    /\ date # weeklyReportStartDate
    /\ weeklyReportStartDate' = date
    /\ out' = NoOutput
    /\ UNCHANGED <<weeklyData, selectedDate, currentDayData, nextId, effectPending,
                   reportVars, weeklyReportEndDate, callVars, headerVars>>

\* setWeeklyReportEndDate (837)
SetWeeklyReportEndDate(date) ==
    /\ ~effectPending
    /\ date # weeklyReportEndDate
    /\ weeklyReportEndDate' = date
    /\ out' = NoOutput
    /\ UNCHANGED <<weeklyData, selectedDate, currentDayData, nextId, effectPending,
                   reportVars, weeklyReportStartDate, callVars, headerVars>>

\* handleHeaderInputChange (175-191): the state cell a header field is kept in
headerInputTargetStore(field) == "weeklyData"

headerInputTarget(field) ==
    IF field = "employeeName" THEN "employeeName"
    ELSE IF field = "truckNumber" THEN "truckNumber"
    ELSE "weeklyData"

\* The setWeeklyData of handleHeaderInputChange for any field (181-189)
headerInputUpdate(prev, date, field, value, uuid) ==
    LET dayData == IF Has(prev, date) THEN Get(prev, date)
                   ELSE [jobs |-> DefaultJobs(uuid), dayOfWeek |-> Undefined,
                         totalHours |-> Undefined, netHours |-> Undefined,
                         isOnCall |-> FALSE]
    IN  Put(prev, date, (field :> value) @@ [dayData EXCEPT !.dayOfWeek = getDayOfWeek(date)])

\* handleHeaderInputChange('employeeName' | 'truckNumber', e.target.value) (609, 620)
HandleHeaderInputChange(field, value) ==
    /\ ~effectPending
    /\ employeeName' = IF headerInputTarget(field) = "employeeName" THEN value ELSE employeeName
    /\ truckNumber' = IF headerInputTarget(field) = "truckNumber" THEN value ELSE truckNumber
    /\ Commit(IF headerInputTarget(field) = "weeklyData"
              THEN headerInputUpdate(weeklyData, selectedDate, field, value, nextId)
              ELSE weeklyData,
              selectedDate, nextId, FALSE)
    /\ out' = NoOutput
    /\ UNCHANGED <<reportVars, rangeVars, callVars, recipientEmail>>

\* setRecipientEmail (871); the input is rendered with the weekly report (861)
SetRecipientEmail(value) ==
    /\ ~effectPending
    /\ generatedWeeklyReport # EmptyStr
    /\ value # recipientEmail
    /\ recipientEmail' = value
    /\ out' = NoOutput
    /\ UNCHANGED <<weeklyData, selectedDate, currentDayData, nextId, effectPending,
                   reportVars, rangeVars, callVars, employeeName, truckNumber>>

\* generateDailyCsvReport (481-522)
GenerateDailyCsvReport ==
    /\ ~effectPending
    /\ out' = CsvHeader(employeeName, truckNumber) @@ DailyCsv(selectedDate, currentDayData)
    /\ UNCHANGED <<weeklyData, selectedDate, currentDayData, nextId, effectPending,
                   reportVars, rangeVars, callVars, headerVars>>

\* generateCsvReport (526-590)
GenerateCsvReport ==
    /\ ~effectPending
    /\ out' = CsvHeader(employeeName, truckNumber)
                @@ WeeklyCsv(weeklyData, weeklyReportStartDate, weeklyReportEndDate)
    /\ UNCHANGED <<weeklyData, selectedDate, currentDayData, nextId, effectPending,
                   reportVars, rangeVars, callVars, headerVars>>

\* Both Generate buttons are disabled while isGeneratingReport (776, 843)
ReportButtonNeverDisabled == FALSE

ReportButtonDisabled == isGeneratingReport

\* generateDailyReport up to the await (266-332)
GenerateDailyReport ==
    /\ ~effectPending
    /\ ~ReportButtonDisabled
    /\ Len(requestsIssued) < MaxRequest
    /\ isGeneratingReport' = TRUE
    /\ generatedDailyReport' = EmptyStr
    /\ reportError' = ""
    /\ pendingFetch' = pendingFetch \cup {[kind |-> "daily", n |-> Len(requestsIssued) + 1]}
    /\ requestsIssued' = Append(requestsIssued, "daily")
    /\ out' = PromptHeader(employeeName, truckNumber)
                @@ DailyPrompt(selectedDate, currentDayData)
    /\ UNCHANGED <<weeklyData, selectedDate, currentDayData, nextId, effectPending,
                   generatedWeeklyReport, rangeVars, callVars, headerVars>>

\* generateWeeklyReport up to the await (351-438)
GenerateWeeklyReport ==
    /\ ~effectPending
    /\ ~ReportButtonDisabled
    /\ Len(requestsIssued) < MaxRequest
    /\ isGeneratingReport' = TRUE
    /\ generatedWeeklyReport' = EmptyStr
    /\ reportError' = ""
    /\ pendingFetch' = pendingFetch \cup {[kind |-> "weekly", n |-> Len(requestsIssued) + 1]}
    /\ requestsIssued' = Append(requestsIssued, "weekly")
    /\ out' = PromptHeader(employeeName, truckNumber)
                @@ WeeklyPrompt(weeklyData, weeklyReportStartDate, weeklyReportEndDate)
    /\ UNCHANGED <<weeklyData, selectedDate, currentDayData, nextId, effectPending,
                   generatedDailyReport, rangeVars, callVars, headerVars>>

\* What the code after the await does with the response to request n: the
\* report and the error it leaves (334-345, 440-454)
responseUpdateSilent(report, error, n, outcome, unexpected, thrown) ==
    [report |-> IF outcome = "text" THEN ReportText(n) ELSE report, error |-> error]

responseUpdate(report, error, n, outcome, unexpected, thrown) ==
    CASE outcome = "text" -> [report |-> ReportText(n), error |-> error]
      [] outcome = "empty" -> [report |-> report, error |-> unexpected]
      [] outcome = "throw" -> [report |-> report, error |-> thrown]

DailyResponseNoFinally(outcome) ==
    /\ ~effectPending
    /\ \E req \in pendingFetch :
          /\ req.kind = "daily"
          /\ pendingFetch' = pendingFetch \ {req}
          /\ generatedDailyReport' =
                responseUpdate(generatedDailyReport, reportError, req.n, outcome,
                               ErrDailyUnexpected, ErrDailyThrown).report
          /\ reportError' =
                responseUpdate(generatedDailyReport, reportError, req.n, outcome,
                               ErrDailyUnexpected, ErrDailyThrown).error
    /\ isGeneratingReport' = (outcome = "throw")
    /\ out' = NoOutput
    /\ UNCHANGED <<weeklyData, selectedDate, currentDayData, nextId, effectPending,
                   generatedWeeklyReport, requestsIssued, rangeVars, callVars, headerVars>>

\* generateDailyReport after the await (334-347)
DailyResponse(outcome) ==
    /\ ~effectPending
    /\ \E req \in pendingFetch :
          /\ req.kind = "daily"
          /\ pendingFetch' = pendingFetch \ {req}
          /\ generatedDailyReport' =
                responseUpdate(generatedDailyReport, reportError, req.n, outcome,
                               ErrDailyUnexpected, ErrDailyThrown).report
          /\ reportError' =
                responseUpdate(generatedDailyReport, reportError, req.n, outcome,
                               ErrDailyUnexpected, ErrDailyThrown).error
    /\ isGeneratingReport' = FALSE
    /\ out' = NoOutput
    /\ UNCHANGED <<weeklyData, selectedDate, currentDayData, nextId, effectPending,
                   generatedWeeklyReport, requestsIssued, rangeVars, callVars, headerVars>>

\* generateWeeklyReport after the await (440-457)
WeeklyResponse(outcome) ==
    /\ ~effectPending
    /\ \E req \in pendingFetch :
          /\ req.kind = "weekly"
          /\ pendingFetch' = pendingFetch \ {req}
          /\ generatedWeeklyReport' =
                responseUpdate(generatedWeeklyReport, reportError, req.n, outcome,
                               ErrUnexpected, ErrThrown).report
          /\ reportError' =
                responseUpdate(generatedWeeklyReport, reportError, req.n, outcome,
                               ErrUnexpected, ErrThrown).error
    /\ isGeneratingReport' = FALSE
    /\ out' = NoOutput
    /\ UNCHANGED <<weeklyData, selectedDate, currentDayData, nextId, effectPending,
                   generatedDailyReport, requestsIssued, rangeVars, callVars, headerVars>>

\* The validation of handleShareViaEmail (462-469): the error it records, or ''
shareErrorNoRecipientCheck(report, recipient) ==
    IF report = EmptyStr THEN ErrNoReport ELSE ""

shareError(report, recipient) ==
    IF report = EmptyStr THEN ErrNoReport
    ELSE IF recipient = EmptyStr THEN ErrNoRecipient
    ELSE ""

\* handleShareViaEmail (461-478)
HandleShareViaEmail ==
    /\ ~effectPending
    /\ reportError' = shareError(generatedWeeklyReport, recipientEmail)
    /\ out' = IF shareError(generatedWeeklyReport, recipientEmail) = ""
              THEN MailtoLink(recipientEmail, employeeName, weeklyReportStartDate,
                              weeklyReportEndDate, generatedWeeklyReport)
              ELSE NoOutput
    /\ UNCHANGED <<weeklyData, selectedDate, currentDayData, nextId, effectPending,
                   generatedDailyReport, generatedWeeklyReport, isGeneratingReport,
                   pendingFetch, requestsIssued, rangeVars, callVars, headerVars>>

(***************************************************************************)
(* Specification of the whole component.  Field edits are entered in the   *)
(* first row of the selected day.                                          *)
(***************************************************************************)
EditInputs ==
    {<<"travelStartTime", T0800>>,
     <<"travelHomeTime", T1401>>}

EditRows == {1}

FetchOutcomes == {"text", "empty", "throw"}

NextEditInputs == {<<"travelStartTime", T0800>>}

HeaderInputs == {<<"employeeName", NameAl>>}

RecipientInputs == {Recipient}

EditRow(rows, inputs) ==
    \E i \in rows \cap DOMAIN currentJobs, e \in inputs :
        HandleJobInputChange(currentJobs[i].id, e[1], e[2])

RemoveRow(rows) ==
    \E i \in rows \cap DOMAIN currentJobs : HandleRemoveJob(currentJobs[i].id)

LastRow == {Len(currentJobs)}

Next ==
    \/ Effect
    \/ EditRow(EditRows, NextEditInputs)
    \/ HandleAddJob(MaxId)
    \/ RemoveRow(LastRow)
    \/ HandleOnCallChange
    \/ \E date \in Dates : SelectDate(date, 3 * MaxDate)
    \/ \E date \in Dates : SetWeeklyReportStartDate(date)
    \/ \E date \in Dates : SetWeeklyReportEndDate(date)
    \/ GenerateCsvReport
    \/ GenerateWeeklyReport
    \/ \E outcome \in FetchOutcomes : WeeklyResponse(outcome)
    \/ GenerateDailyCsvReport
    \/ GenerateDailyReport
    \/ \E outcome \in FetchOutcomes : DailyResponse(outcome)
    \/ \E e \in HeaderInputs : HandleHeaderInputChange(e[1], e[2])
    \/ \E value \in RecipientInputs : SetRecipientEmail(value)
    \/ HandleShareViaEmail

Spec == Init /\ [][Next]_vars

(***************************************************************************)
(* Specification of one day's editing: every field of the first two rows,  *)
(* with clock times on both sides of the 4 hour and 6 hour thresholds.     *)
(***************************************************************************)
DayEditInputs ==
    {<<"jobNumber", JobNo>>,
     <<"travelStartTime", T0800>>,
     <<"workFinishTime", T1400>>,
     <<"workFinishTime", EmptyStr>>,
     <<"travelHomeTime", T1200>>,
     <<"travelHomeTime", T1401>>}

DayEditRows == {1, 2}

DayNext ==
    \/ Effect
    \/ EditRow(DayEditRows, DayEditInputs)
    \/ HandleAddJob(MaxDayId)
    \/ RemoveRow(LastRow)
    \/ HandleOnCallChange

DaySpec == DayInit /\ [][DayNext]_vars

DayLiveSpec == DaySpec /\ WF_vars(Effect)

(***************************************************************************)
(* Specification of the job list at its capacity.                          *)
(***************************************************************************)
CapEditInputs == {<<"jobLocation", JobLoc>>}

CapNext ==
    \/ Effect
    \/ EditRow(EditRows, CapEditInputs)
    \/ HandleAddJob(MaxCapId)
    \/ RemoveRow(LastRow)
    \/ GenerateWeeklyReport
    \/ \E outcome \in FetchOutcomes : WeeklyResponse(outcome)

CapSpec == DayInit /\ [][CapNext]_vars

(***************************************************************************)
(* Specification of the weekly aggregation: days are visited and edited in *)
(* any order, the range is moved, and both weekly assemblers are run.      *)
(***************************************************************************)
WeekNext ==
    \/ Effect
    \/ EditRow(EditRows, EditInputs)
    \/ \E date \in Dates : SelectDate(date, 3 * MaxDate)
    \/ \E date \in Dates : SetWeeklyReportStartDate(date)
    \/ \E date \in Dates : SetWeeklyReportEndDate(date)
    \/ GenerateCsvReport
    \/ GenerateWeeklyReport
    \/ \E outcome \in FetchOutcomes : WeeklyResponse(outcome)

WeekSpec == Init /\ [][WeekNext]_vars

(***************************************************************************)
(* Specification of calculateJobTotal applied on its own to every          *)
(* combination of the four time fields.                                    *)
(***************************************************************************)
CalcTimes == {EmptyStr, T0000, T0800, T1200, T1201, T1401}

CalcJobs ==
    {[createInitialJob(1) EXCEPT !.travelStartTime = a, !.workStartTime = b,
                                 !.workFinishTime = c, !.travelHomeTime = d] :
        a \in CalcTimes, b \in CalcTimes, c \in CalcTimes, d \in CalcTimes}

CalcInit ==
    /\ Mounted
    /\ selectedDate = 1
    /\ weeklyReportStartDate = 1
    /\ weeklyReportEndDate = MaxDate
    /\ arg \in CalcJobs
    /\ result = NoCall

ApplyCalculateJobTotal ==
    /\ ~result.done
    /\ result' = [done |-> TRUE, value |-> calculateJobTotal(arg)]
    /\ UNCHANGED <<weeklyData, selectedDate, currentDayData, nextId, effectPending,
                   reportVars, rangeVars, out, arg, headerVars>>

CalcNext == ApplyCalculateJobTotal

CalcSpec == CalcInit /\ [][CalcNext]_vars

(***************************************************************************)
(* Specification of editing under a request: the Store is edited and the   *)
(* date changed while daily reports are requested and answered.            *)
(***************************************************************************)
ReportEditInputs == {<<"travelStartTime", T0800>>}

ReportNext ==
    \/ Effect
    \/ EditRow(EditRows, ReportEditInputs)
    \/ HandleAddJob(MaxReportId)
    \/ RemoveRow(LastRow)
    \/ HandleOnCallChange
    \/ \E date \in Dates : SelectDate(date, MaxReportId)
    \/ GenerateDailyReport
    \/ \E outcome \in FetchOutcomes : DailyResponse(outcome)

ReportSpec == DayInit /\ [][ReportNext]_vars

(***************************************************************************)
(* Specification of the summarization requests: reports of both kinds are  *)
(* requested and answered, with edits of the first row in between.         *)
(***************************************************************************)
RequestNext ==
    \/ Effect
    \/ EditRow(EditRows, EditInputs)
    \/ HandleOnCallChange
    \/ GenerateDailyReport
    \/ GenerateWeeklyReport
    \/ \E outcome \in FetchOutcomes : DailyResponse(outcome)
    \/ \E outcome \in FetchOutcomes : WeeklyResponse(outcome)

RequestSpec == DayInit /\ [][RequestNext]_vars

\* React runs a scheduled effect, and a fetch settles: its promise is
\* fulfilled or rejected, and the code after the await or the catch runs.
\* The continuation waits for a scheduled effect but is not cancelled by
\* the edit that scheduled it, so no sequence of edits starves it: the
\* fairness of the responses is strong.
RequestLiveSpec ==
    /\ RequestSpec
    /\ WF_vars(Effect)
    /\ SF_vars(\E outcome \in FetchOutcomes : DailyResponse(outcome))
    /\ SF_vars(\E outcome \in FetchOutcomes : WeeklyResponse(outcome))

(***************************************************************************)
(* Specification of the header values and the hand-offs: the employee,     *)
(* truck and recipient are entered, dates are visited, and every report,   *)
(* export and the email hand-off are produced.                             *)
(***************************************************************************)
ShareHeaderInputs ==
    {<<"employeeName", NameWithSpace>>, <<"truckNumber", TruckNo>>}

ShareNext ==
    \/ Effect
    \/ EditRow(EditRows, ReportEditInputs)
    \/ \E date \in Dates : SelectDate(date, 3 * MaxDate)
    \/ \E e \in ShareHeaderInputs : HandleHeaderInputChange(e[1], e[2])
    \/ \E value \in RecipientInputs : SetRecipientEmail(value)
    \/ GenerateDailyReport
    \/ GenerateWeeklyReport
    \/ \E outcome \in FetchOutcomes : DailyResponse(outcome)
    \/ \E outcome \in FetchOutcomes : WeeklyResponse(outcome)
    \/ GenerateDailyCsvReport
    \/ GenerateCsvReport
    \/ HandleShareViaEmail

ShareSpec == DayInit /\ [][ShareNext]_vars

(***************************************************************************)
(* Specification of one job entered in full: each of the four time fields  *)
(* of the first row takes an early and a late value.                       *)
(***************************************************************************)
ScenarioEditInputs ==
    {<<"travelStartTime", T0800>>,
     <<"workStartTime", T0830>>,
     <<"workStartTime", T1200>>,
     <<"workFinishTime", T1630>>,
     <<"workFinishTime", T1201>>,
     <<"travelHomeTime", T1700>>,
     <<"travelHomeTime", T1401>>}

ScenarioNext ==
    \/ Effect
    \/ EditRow(EditRows, ScenarioEditInputs)
    \/ HandleOnCallChange

ScenarioSpec == DayInit /\ [][ScenarioNext]_vars

(***************************************************************************)
(* Specification of the Store mutations alone, with rows removed anywhere  *)
(* in the list.                                                            *)
(***************************************************************************)
AnyRow == DOMAIN currentJobs

StoreNext ==
    \/ Effect
    \/ EditRow(EditRows, ReportEditInputs)
    \/ HandleAddJob(MaxStoreId)
    \/ RemoveRow(AnyRow)
    \/ HandleOnCallChange
    \/ \E date \in Dates : SelectDate(date, MaxStoreId)

StoreSpec == Init /\ [][StoreNext]_vars

(***************************************************************************)
(* Specification of the operations on stored days: the third row is        *)
(* removed, days are toggled and visited, the weekly report is requested,  *)
(* answered and emailed, and both exports are produced.                    *)
(***************************************************************************)
ThirdRow == {3}

KeysNext ==
    \/ Effect
    \/ RemoveRow(ThirdRow)
    \/ HandleOnCallChange
    \/ \E date \in Dates : SelectDate(date, 3 * MaxDate)
    \/ GenerateWeeklyReport
    \/ \E outcome \in FetchOutcomes : WeeklyResponse(outcome)
    \/ GenerateDailyCsvReport
    \/ GenerateCsvReport
    \/ \E value \in RecipientInputs : SetRecipientEmail(value)
    \/ HandleShareViaEmail

KeysSpec == DayInit /\ [][KeysNext]_vars

(***************************************************************************)
(* Specification of formatDecimalHours applied on its own.                 *)
(***************************************************************************)
FormatInputs == (0..MaxMinutes) \cup {-1, -5, NaN, Undefined}

FormatInit ==
    /\ Mounted
    /\ selectedDate = 1
    /\ weeklyReportStartDate = 1
    /\ weeklyReportEndDate = MaxDate
    /\ arg \in FormatInputs
    /\ result = NoCall

ApplyFormatDecimalHours ==
    /\ ~result.done
    /\ result' = [done |-> TRUE, value |-> formatDecimalHours(arg)]
    /\ UNCHANGED <<weeklyData, selectedDate, currentDayData, nextId, effectPending,
                   reportVars, rangeVars, out, arg, headerVars>>

FormatNext == ApplyFormatDecimalHours

FormatSpec == FormatInit /\ [][FormatNext]_vars

(***************************************************************************)
(* Specification of timeToMinutes applied on its own to every clock time   *)
(* an <input type="time"> delivers, to the empty string, and to strings    *)
(* that are not clock times: no minute part, an empty part, a part that is *)
(* not a number, a third part.                                             *)
(***************************************************************************)
ClockHours == 0..23

ClockMinutes == 0..59

TwoDigits(n) == <<DigitChar(n \div 10), DigitChar(n % 10)>>

ClockTime(h, m) == TwoDigits(h) \o <<":">> \o TwoDigits(m)

WellFormedTimes == {ClockTime(h, m) : h \in ClockHours, m \in ClockMinutes}

MalformedTimes ==
    {<<"0", "8">>,
     <<"0", "8", ":">>,
     <<":", "3", "0">>,
     <<"x", "8", ":", "0", "0">>,
     <<"0", "8", ":", "x", "0">>,
     <<"x", "y">>,
     <<"0", "8", ":", "0", "0", ":", "3", "0">>}

TimeInputs == WellFormedTimes \cup MalformedTimes \cup {EmptyStr}

TimeInit ==
    /\ Mounted
    /\ selectedDate = 1
    /\ weeklyReportStartDate = 1
    /\ weeklyReportEndDate = MaxDate
    /\ arg \in TimeInputs
    /\ result = NoCall

ApplyTimeToMinutes ==
    /\ ~result.done
    /\ result' = [done |-> TRUE, value |-> timeToMinutes(arg)]
    /\ UNCHANGED <<weeklyData, selectedDate, currentDayData, nextId, effectPending,
                   reportVars, rangeVars, out, arg, headerVars>>

TimeNext == ApplyTimeToMinutes

TimeSpec == TimeInit /\ [][TimeNext]_vars

(***************************************************************************)
(* Specification of the net computation of the recompute effect applied on *)
(* its own to every day total and on-call flag.                            *)
(***************************************************************************)
DayTotals == 0..MaxMinutes

NetInputs == [total : DayTotals, isOnCall : BOOLEAN]

NetInit ==
    /\ Mounted
    /\ selectedDate = 1
    /\ weeklyReportStartDate = 1
    /\ weeklyReportEndDate = MaxDate
    /\ arg \in NetInputs
    /\ result = NoCall

ApplyNetMinutes ==
    /\ ~result.done
    /\ result' = [done |-> TRUE,
                  unclamped |-> currentNetMinutes(arg.total, arg.isOnCall),
                  value |-> NetMinutes(arg.total, arg.isOnCall)]
    /\ UNCHANGED <<weeklyData, selectedDate, currentDayData, nextId, effectPending,
                   reportVars, rangeVars, out, arg, headerVars>>

NetNext == ApplyNetMinutes

NetSpec == NetInit /\ [][NetNext]_vars

(***************************************************************************)
(* Specification of the daily prompt: any of the three default rows gets   *)
(* or loses an entry, rows are removed anywhere, and the daily report is   *)
(* requested and answered.                                                 *)
(***************************************************************************)
PromptEditRows == {1, 2, 3}

PromptEditInputs ==
    {<<"jobNumber", JobNo>>,
     <<"jobNumber", EmptyStr>>,
     <<"travelHomeTime", T1401>>}

PromptNext ==
    \/ Effect
    \/ EditRow(PromptEditRows, PromptEditInputs)
    \/ RemoveRow(AnyRow)
    \/ GenerateDailyReport
    \/ \E outcome \in FetchOutcomes : DailyResponse(outcome)

PromptSpec == DayInit /\ [][PromptNext]_vars

(***************************************************************************)
(* Specification of sanitizeFilename applied on its own, and applied again *)
(* to its result, on every string of a letter of each case, a digit, the   *)
(* three punctuation marks that are kept, and three characters that are    *)
(* not.                                                                    *)
(***************************************************************************)
NameChars == {"a", "Z", "5", "_", ".", "-", " ", "/", "@"}

RECURSIVE StringsOfLen(_)
StringsOfLen(n) ==
    IF n = 0 THEN {EmptyStr}
    ELSE {Append(str, c) : str \in StringsOfLen(n - 1), c \in NameChars}

NameInputs == UNION {StringsOfLen(n) : n \in 0..MaxNameLen}

SanitizeInit ==
    /\ Mounted
    /\ selectedDate = 1
    /\ weeklyReportStartDate = 1
    /\ weeklyReportEndDate = MaxDate
    /\ arg \in NameInputs
    /\ result = NoCall

ApplySanitizeFilename ==
    /\ ~result.done
    /\ result' = [done |-> TRUE, value |-> sanitizeFilename(arg), twice |-> FALSE]
    /\ UNCHANGED <<weeklyData, selectedDate, currentDayData, nextId, effectPending,
                   reportVars, rangeVars, out, arg, headerVars>>

ReapplySanitizeFilename ==
    /\ result.done
    /\ ~result.twice
    /\ result' = [done |-> TRUE, value |-> result.value, twice |-> TRUE,
                  again |-> sanitizeFilename(result.value)]
    /\ UNCHANGED <<weeklyData, selectedDate, currentDayData, nextId, effectPending,
                   reportVars, rangeVars, out, arg, headerVars>>

SanitizeNext ==
    \/ ApplySanitizeFilename
    \/ ReapplySanitizeFilename

SanitizeSpec == SanitizeInit /\ [][SanitizeNext]_vars

(***************************************************************************)
(* Specification of the edits of two rows across dates: fields of the      *)
(* first two rows are set and set again, the last row is removed, the day  *)
(* is toggled, and dates are left and visited again.                       *)
(***************************************************************************)
StoreEditRows == {1, 2}

StoreEditInputs ==
    {<<"travelStartTime", T0800>>,
     <<"travelStartTime", T1200>>}

EditNext ==
    \/ Effect
    \/ EditRow(StoreEditRows, StoreEditInputs)
    \/ RemoveRow(LastRow)
    \/ HandleOnCallChange
    \/ \E date \in Dates : SelectDate(date, MaxStoreId)

EditSpec == DayInit /\ [][EditNext]_vars

(***************************************************************************)
(* Specification of the recompute after each kind of operation, from a     *)
(* start on any date: React runs a scheduled effect, so the effect is      *)
(* taken under weak fairness.                                              *)
(***************************************************************************)
FixpointNext ==
    \/ Effect
    \/ EditRow(EditRows, ReportEditInputs)
    \/ HandleAddJob(MaxStoreId)
    \/ RemoveRow(LastRow)
    \/ HandleOnCallChange
    \/ \E date \in Dates : SelectDate(date, MaxStoreId)

FixpointSpec == Init /\ [][FixpointNext]_vars /\ WF_vars(Effect)

(***************************************************************************)
(* Properties.                                                             *)
(***************************************************************************)
StoredDates == {d \in Dates : Has(weeklyData, d)}

Day(d) == Get(weeklyData, d)

RECURSIVE SumDurations(_)
SumDurations(jobs) ==
    IF jobs = << >> THEN 0
    ELSE Head(jobs).totalTimeWorkedMinutes + SumDurations(Tail(jobs))

\* The deduction rule, by cases on the day total T and the on-call flag c.
NetRule(T, c) ==
    CASE T <= 240 -> T
      [] T > 240 /\ T <= 360 -> T - 30
      [] T > 360 /\ ~c -> T - 90
      [] T > 360 /\ c -> T - 30

DayRecomputed(d) ==
    /\ Day(d).totalHours = SumDurations(Day(d).jobs)
    /\ Day(d).netHours = NetRule(Day(d).totalHours, Day(d).isOnCall)

\* C1: once the day recompute has run, the stored net minutes of every day
\* are the deduction rule applied to the sum of the day's job durations and
\* its on-call flag.
C1_NetByCases ==
    ~effectPending =>
        \A d \in StoredDates :
            Day(d).netHours = NetRule(SumDurations(Day(d).jobs), Day(d).isOnCall)

C1_Witness ==
    /\ ~effectPending
    /\ \E d \in StoredDates :
          /\ SumDurations(Day(d).jobs) > 360
          /\ Day(d).isOnCall
          /\ Day(d).netHours = SumDurations(Day(d).jobs) - 30

\* The span policy, stated on the set of fields that are set.
SetFields(job) == {f \in TimeFields : timeToMinutes(job[f]) > 0}

SpanPolicy(job) ==
    LET set == {timeToMinutes(job[f]) : f \in SetFields(job)}
        latest == CHOOSE m \in set : \A n \in set : n <= m
        earliest == CHOOSE m \in set : \A n \in set : m <= n
    IN  IF Cardinality(SetFields(job)) >= 2 THEN latest - earliest ELSE 0

\* C2: calculateJobTotal is the span policy: with at least two fields set
\* (minutes greater than 0) the duration is latest minus earliest whichever
\* field holds which time, and with fewer than two it is 0.
C2_SpanPolicy == result.done => result.value = SpanPolicy(arg)

C2_Witness ==
    /\ result.done
    /\ timeToMinutes(arg.travelStartTime) > timeToMinutes(arg.travelHomeTime)
    /\ timeToMinutes(arg.travelHomeTime) > 0
    /\ arg.workStartTime = T0000
    /\ result.value = timeToMinutes(arg.travelStartTime) - timeToMinutes(arg.travelHomeTime)

\* C3: in every state a consumer can observe, every day's totalHours is the
\* sum of its jobs' durations and its netHours is the deduction rule applied
\* to that total and its on-call flag.
C3_NoPartialUpdate == \A d \in StoredDates : DayRecomputed(d)

\* C4: after an edit, add, remove or on-call toggle on the selected date the
\* system reaches, with no further input, a state in which that date's
\* stored totals are the aggregation of its current jobs and on-call flag.
C4_RecomputeReached ==
    effectPending ~>
        (~effectPending /\ Has(weeklyData, selectedDate) /\ DayRecomputed(selectedDate))

C4_Witness ==
    /\ ~effectPending
    /\ Has(weeklyData, selectedDate)
    /\ Day(selectedDate).totalHours > 360
    /\ Day(selectedDate).isOnCall
    /\ Len(Day(selectedDate).jobs) # 3
    /\ DayRecomputed(selectedDate)

\* A step of one of the edits of the selected date.
EditStep ==
    \/ \E jobId \in CurrentJobIds, f \in TimeFields \cup TextFields,
          v \in {EmptyStr, JobNo, JobLoc, T0000, T0800, T1200, T1201, T1400, T1401} :
            HandleJobInputChange(jobId, f, v)
    \/ HandleAddJob(MaxStoreId)
    \/ \E jobId \in CurrentJobIds : HandleRemoveJob(jobId)
    \/ HandleOnCallChange

\* C5: a date key is inserted into the Store only by an edit on that date;
\* selecting or viewing a date, the start-up date included, never adds a key.
C5_KeysOnlyByEdits ==
    [][(\E d \in Dates : ~Has(weeklyData, d) /\ Has(weeklyData', d)) => EditStep]_vars

C7_AddAtCapacity ==
    [][(/\ Has(weeklyData, selectedDate)
        /\ Len(Day(selectedDate).jobs) = 12
        /\ HandleAddJob(MaxCapId))
       => /\ weeklyData' = weeklyData
          /\ reportError' = reportError
          /\ generatedDailyReport' = generatedDailyReport
          /\ generatedWeeklyReport' = generatedWeeklyReport]_vars

C7_Witness ==
    /\ out.kind = "console.log"
    /\ reportError # ""
    /\ Has(weeklyData, selectedDate)
    /\ Len(Day(selectedDate).jobs) = 12

\* C8: every stored job's totalTimeWorkedMinutes is non-negative and is the
\* job-duration function of the job's four time fields.
C8_JobDuration ==
    \A d \in StoredDates : \A i \in DOMAIN Day(d).jobs :
        /\ Day(d).jobs[i].totalTimeWorkedMinutes >= 0
        /\ Day(d).jobs[i].totalTimeWorkedMinutes = calculateJobTotal(Day(d).jobs[i])

C8_Witness ==
    \E d \in StoredDates : \E i \in DOMAIN Day(d).jobs :
        /\ Day(d).jobs[i].totalTimeWorkedMinutes = 240
        /\ Day(d).jobs[i].workFinishTime = EmptyStr
        /\ Day(d).jobs[i].jobNumber = JobNo

RECURSIVE SetSum(_, _)
SetSum(S, field) ==
    IF S = {} THEN 0
    ELSE LET d == CHOOSE x \in S : TRUE
         IN  Day(d)[field] + SetSum(S \ {d}, field)

IsWeeklyOutput == out.kind \in {"weeklyCsv", "weeklyPrompt"}

DatesInRange ==
    {d \in StoredDates : weeklyReportStartDate <= d /\ d <= weeklyReportEndDate}

\* C9: the weekly total and net of the weekly report and of the weekly export
\* are the sums of the stored totalHours and netHours over exactly the stored
\* keys within the range; a range with start after end gives 0.
C9_WeeklySums ==
    IsWeeklyOutput =>
        /\ {out.dates[i] : i \in DOMAIN out.dates} = DatesInRange
        /\ out.totalWeeklyHours = SetSum(DatesInRange, "totalHours")
        /\ out.totalWeeklyNetHours = SetSum(DatesInRange, "netHours")
        /\ weeklyReportStartDate > weeklyReportEndDate =>
               out.totalWeeklyHours = 0 /\ out.totalWeeklyNetHours = 0

C9_Witness ==
    /\ out.kind = "weeklyPrompt"
    /\ out.totalWeeklyHours > 0
    /\ out.totalWeeklyNetHours > 0
    /\ out.totalWeeklyNetHours < out.totalWeeklyHours
    /\ \E d \in StoredDates \ DatesInRange : Day(d).totalHours > 0

\* C10: the days of a weekly report or export are listed in strictly
\* ascending date order.
C10_AscendingDates ==
    IsWeeklyOutput =>
        \A i \in DOMAIN out.dates : \A j \in DOMAIN out.dates :
            i < j => out.dates[i] < out.dates[j]

C10_Witness ==
    /\ out.kind = "weeklyCsv"
    /\ Len(out.dates) >= 2
    /\ ObjectKeys(weeklyData)[1] > ObjectKeys(weeklyData)[2]

FailureOutcomes == {"empty", "throw"}

DailyFailure == \E outcome \in FailureOutcomes : DailyResponse(outcome)

WeeklyFailure == \E outcome \in FailureOutcomes : WeeklyResponse(outcome)

\* C11: a failed summarization request records a non-empty error and leaves
\* the Store as it was; neither the failure nor the request it answers
\* touches the generated report of the other kind.
C11_FailureKeepsStore ==
    [][/\ DailyFailure \/ WeeklyFailure =>
            reportError' # "" /\ weeklyData' = weeklyData
       /\ DailyFailure \/ GenerateDailyReport =>
            generatedWeeklyReport' = generatedWeeklyReport
       /\ WeeklyFailure \/ GenerateWeeklyReport =>
            generatedDailyReport' = generatedDailyReport]_vars

C11_Witness ==
    /\ reportError \in {ErrDailyUnexpected, ErrDailyThrown}
    /\ generatedWeeklyReport # EmptyStr
    /\ pendingFetch = {}
    /\ \E d \in StoredDates : Day(d).jobs[1].travelStartTime = T0800

RequestOutstanding == pendingFetch # {}

\* C12: while a summarization request is outstanding every Store mutation
\* stays enabled, and its effect on the Store is the one of its update
\* function, which does not read the request.
C12_EditableWhileOutstanding ==
    /\ [](RequestOutstanding /\ ~effectPending =>
            /\ \A i \in DOMAIN currentJobs :
                  ENABLED HandleJobInputChange(currentJobs[i].id, "travelStartTime", T0800)
            /\ nextId <= MaxReportId => ENABLED HandleAddJob(MaxReportId)
            /\ Len(currentJobs) > 1 => ENABLED RemoveRow(LastRow)
            /\ ENABLED HandleOnCallChange
            /\ \A date \in Dates \ {selectedDate} :
                  Has(weeklyData, date) => ENABLED SelectDate(date, MaxReportId))
    /\ [][RequestOutstanding =>
            /\ \A i \in DOMAIN currentJobs :
                  HandleJobInputChange(currentJobs[i].id, "travelStartTime", T0800) =>
                      weeklyData' = jobInputChangeUpdate(weeklyData, selectedDate,
                                        currentJobs[i].id, "travelStartTime", T0800)
            /\ HandleAddJob(MaxReportId) =>
                  weeklyData' = addJobUpdate(weeklyData, selectedDate, nextId)
            /\ RemoveRow(LastRow) =>
                  weeklyData' = removeJobUpdate(weeklyData, selectedDate,
                                                currentJobs[Len(currentJobs)].id)
            /\ HandleOnCallChange =>
                  weeklyData' = onCallUpdate(weeklyData, selectedDate, ~currentIsOnCall, nextId)
            /\ (\E date \in Dates : SelectDate(date, MaxReportId)) =>
                  weeklyData' = weeklyData]_vars

C12_Witness ==
    /\ RequestOutstanding
    /\ ~effectPending
    /\ selectedDate = 2
    /\ Day(1).jobs[1].travelStartTime = T0800
    /\ Day(1).isOnCall
    /\ Len(Day(1).jobs) = 2
    /\ Len(requestsIssued) = 1

\* The number of the latest request of a kind.
LatestRequest(kind) ==
    CHOOSE n \in DOMAIN requestsIssued :
        /\ requestsIssued[n] = kind
        /\ \A m \in DOMAIN requestsIssued : requestsIssued[m] = kind => m <= n

\* C13: a displayed report is the response to the most recently issued
\* request of its kind, never the response to an earlier one; at most one
\* request is outstanding at a time.
C13_LatestResponseShown ==
    /\ Cardinality(pendingFetch) <= 1
    /\ generatedDailyReport # EmptyStr =>
          generatedDailyReport = ReportText(LatestRequest("daily"))
    /\ generatedWeeklyReport # EmptyStr =>
          generatedWeeklyReport = ReportText(LatestRequest("weekly"))

C13_Witness ==
    /\ requestsIssued = <<"daily", "daily">>
    /\ generatedDailyReport = ReportText(2)
    /\ pendingFetch = {}

\* C14: the share operation hands the report to the mail client exactly when
\* the generated weekly report and the recipient are both non-empty;
\* otherwise it hands over nothing, records a non-empty error and leaves the
\* Store and the generated reports unchanged.
C14_ShareIffReportAndRecipient ==
    [][HandleShareViaEmail =>
          /\ out'.kind = "mailto" <=>
                (generatedWeeklyReport # EmptyStr /\ recipientEmail # EmptyStr)
          /\ out'.kind # "mailto" =>
                /\ out' = NoOutput
                /\ reportError' # ""
                /\ weeklyData' = weeklyData
                /\ generatedDailyReport' = generatedDailyReport
                /\ generatedWeeklyReport' = generatedWeeklyReport]_vars

C14_Witness ==
    /\ out.kind = "mailto"
    /\ out.recipient = Recipient
    /\ out.body = generatedWeeklyReport
    /\ generatedWeeklyReport # EmptyStr
    /\ reportError = ""

DayFields == {"jobs", "dayOfWeek", "totalHours", "netHours", "isOnCall"}

\* C19: no stored day carries an employee name or truck number, an edit of
\* either leaves the Store unchanged, and every report, export and email
\* carries the current process-wide value.
C19_HeaderProcessWide ==
    /\ [](/\ \A d \in StoredDates : DOMAIN Day(d) = DayFields
          /\ out.kind \in {"dailyPrompt", "weeklyPrompt"} =>
                /\ out.employeeName = OrDefault(employeeName, NA)
                /\ out.truckNumber = OrDefault(truckNumber, NA)
          /\ out.kind \in {"dailyCsv", "weeklyCsv"} =>
                /\ out.employeeName = employeeName
                /\ out.truckNumber = truckNumber
          /\ out.kind = "mailto" => out.employeeName = OrDefault(employeeName, NA))
    /\ [][employeeName' # employeeName \/ truckNumber' # truckNumber =>
             weeklyData' = weeklyData]_vars

C19_Witness ==
    /\ out.kind = "dailyCsv"
    /\ out.date = 2
    /\ out.employeeName = NameWithSpace
    /\ out.truckNumber = TruckNo
    /\ Has(weeklyData, 1)
    /\ Has(weeklyData, 2)

\* The sequential-segment sum of a job's four times.
SegmentSum(job) ==
    (timeToMinutes(job.workStartTime) - timeToMinutes(job.travelStartTime))
      + (timeToMinutes(job.workFinishTime) - timeToMinutes(job.workStartTime))
      + (timeToMinutes(job.travelHomeTime) - timeToMinutes(job.workFinishTime))

AllSetInOrder(job) ==
    /\ timeToMinutes(job.travelStartTime) > 0
    /\ timeToMinutes(job.travelStartTime) <= timeToMinutes(job.workStartTime)
    /\ timeToMinutes(job.workStartTime) <= timeToMinutes(job.workFinishTime)
    /\ timeToMinutes(job.workFinishTime) <= timeToMinutes(job.travelHomeTime)

IsScenarioJob(job) ==
    /\ job.travelStartTime = T0800
    /\ job.workStartTime = T0830
    /\ job.workFinishTime = T1630
    /\ job.travelHomeTime = T1700

\* C15: a stored job whose four times are all set, later than 00:00 and in
\* field order has the sequential-segment sum as its duration; the day of
\* the one job 08:00/08:30/16:30/17:00 totals 540 minutes, with net 450 when
\* not on-call and 510 when on-call.
C15_SegmentSum ==
    /\ \A d \in StoredDates : \A i \in DOMAIN Day(d).jobs :
          AllSetInOrder(Day(d).jobs[i]) =>
              Day(d).jobs[i].totalTimeWorkedMinutes = SegmentSum(Day(d).jobs[i])
    /\ \A d \in StoredDates :
          ~effectPending /\ IsScenarioJob(Day(d).jobs[1]) =>
              /\ Day(d).jobs[1].totalTimeWorkedMinutes = 540
              /\ Day(d).totalHours = 540
              /\ Day(d).netHours = IF Day(d).isOnCall THEN 510 ELSE 450

C15_Witness ==
    /\ ~effectPending
    /\ Has(weeklyData, selectedDate)
    /\ IsScenarioJob(Day(selectedDate).jobs[1])
    /\ Day(selectedDate).isOnCall
    /\ Day(selectedDate).netHours = 510

AdjacentPairs ==
    {<<"travelStartTime", "workStartTime">>,
     <<"workStartTime", "workFinishTime">>,
     <<"workFinishTime", "travelHomeTime">>}

\* C16 as claimed: with exactly one pair of adjacent fields set, the earlier
\* field to a and the later to b, the duration is b - a when a <= b and 0
\* when a > b.
C16_PairClamped ==
    result.done =>
        \A p \in AdjacentPairs :
            SetFields(arg) = {p[1], p[2]} =>
                result.value =
                    IF timeToMinutes(arg[p[1]]) <= timeToMinutes(arg[p[2]])
                    THEN timeToMinutes(arg[p[2]]) - timeToMinutes(arg[p[1]])
                    ELSE 0

\* C16 as amended: with exactly one pair of adjacent fields set (both later
\* than 00:00), the earlier field to a and the later to b, the duration is
\* b - a when a <= b and a - b when a > b.
C16_PairDuration ==
    result.done =>
        \A p \in AdjacentPairs :
            SetFields(arg) = {p[1], p[2]} =>
                result.value =
                    IF timeToMinutes(arg[p[1]]) <= timeToMinutes(arg[p[2]])
                    THEN timeToMinutes(arg[p[2]]) - timeToMinutes(arg[p[1]])
                    ELSE timeToMinutes(arg[p[1]]) - timeToMinutes(arg[p[2]])

C16_Witness ==
    /\ result.done
    /\ SetFields(arg) = {"workStartTime", "workFinishTime"}
    /\ arg.workStartTime = T1201
    /\ arg.workFinishTime = T0800
    /\ result.value = 241

\* The ids of a day's jobs, in order.
Ids(wd, d) == [i \in DOMAIN Get(wd, d).jobs |-> Get(wd, d).jobs[i].id]

FieldEditStep ==
    \E i \in DOMAIN currentJobs, e \in ReportEditInputs :
        HandleJobInputChange(currentJobs[i].id, e[1], e[2])

\* C17: no two jobs in the Store share an id, a field edit changes no job's
\* id, and a newly created job gets an id that no job, removed ones
\* included, has had: every id in use is below the next id drawn, and every
\* id that comes into use is not.
C17_IdsUniqueAndStable ==
    /\ [](/\ \A d1 \in StoredDates, d2 \in StoredDates :
                \A i \in DOMAIN Day(d1).jobs, j \in DOMAIN Day(d2).jobs :
                    Day(d1).jobs[i].id = Day(d2).jobs[j].id => d1 = d2 /\ i = j
          /\ \A d \in StoredDates : \A i \in DOMAIN Day(d).jobs : Day(d).jobs[i].id < nextId
          /\ \A i \in DOMAIN currentJobs : currentJobs[i].id < nextId)
    /\ [][/\ FieldEditStep =>
                \A d \in StoredDates : Has(weeklyData', d) /\ Ids(weeklyData', d) = Ids(weeklyData, d)
          /\ nextId' >= nextId
          /\ \A d \in Dates : Has(weeklyData', d) =>
                \A i \in DOMAIN Get(weeklyData', d).jobs :
                    \/ Get(weeklyData', d).jobs[i].id >= nextId
                    \/ \E j \in DOMAIN currentJobs :
                          currentJobs[j].id = Get(weeklyData', d).jobs[i].id
                    \/ /\ Has(weeklyData, d)
                       /\ \E j \in DOMAIN Day(d).jobs :
                             Day(d).jobs[j].id = Get(weeklyData', d).jobs[i].id]_vars

C17_Witness ==
    /\ Has(weeklyData, 1)
    /\ Ids(weeklyData, 1) = <<1, 3, 4>>
    /\ Day(1).jobs[1].travelStartTime = T0800
    /\ ~effectPending

\* C18: a date key that is in the Store is in the Store after every step.
C18_KeysNeverRemoved ==
    [][\A d \in Dates : Has(weeklyData, d) => Has(weeklyData', d)]_vars

C18_Witness ==
    /\ StoredDates = Dates
    /\ out.kind = "mailto"
    /\ \E d \in StoredDates : Len(Day(d).jobs) < 3 /\ Day(d).isOnCall
    /\ Len(requestsIssued) >= 2

\* The hundredth nearest to minutes / 60.
NearestHundredth(minutes) ==
    CHOOSE h \in 0..(2 * minutes + 1) :
        /\ 60 * h - 100 * minutes <= 30
        /\ 100 * minutes - 60 * h < 30

\* The value, in hundredths, a decimal string with two places denotes.
HundredthsOf(str) ==
    Number(Split(str, ".")[1]) * 100 + Number(Split(str, ".")[2])

\* C20: for minutes >= 0 formatDecimalHours writes minutes / 60 rounded to
\* the nearest hundredth with exactly two decimal places, "0.00" for 0 and
\* "1.50" for 90; for a negative or NaN input it writes "0.00".
C20_FormatDecimalHours ==
    result.done =>
        /\ arg >= 0 =>
              /\ Len(Split(result.value, ".")) = 2
              /\ Len(Split(result.value, ".")[1]) >= 1
              /\ Len(Split(result.value, ".")[2]) = 2
              /\ HundredthsOf(result.value) = NearestHundredth(arg)
        /\ arg < 0 => result.value = <<"0", ".", "0", "0">>
        /\ arg = 0 => result.value = <<"0", ".", "0", "0">>
        /\ arg = 90 => result.value = <<"1", ".", "5", "0">>

C20_Witness ==
    /\ result.done
    /\ arg = 100
    /\ result.value = <<"1", ".", "6", "7">>

\* C21: timeToMinutes returns 0 for every non-empty string that is not a
\* well-formed clock time.
C21_MalformedGivesZero ==
    result.done /\ arg \in MalformedTimes => result.value = 0

\* C22: timeToMinutes returns 60 * HH + MM for every clock time HH:MM from
\* 00:00 to 23:59, and 0 for the empty string.
C22_ClockTimeMinutes ==
    result.done =>
        /\ \A h \in ClockHours, m \in ClockMinutes :
              arg = ClockTime(h, m) => result.value = 60 * h + m
        /\ arg = EmptyStr => result.value = 0

C22_Witness ==
    /\ result.done
    /\ arg = ClockTime(23, 59)
    /\ result.value = 1439

\* The rows of a job list that have an entry in at least one of the six
\* fields, and the k-th of them in list order.
NonEmptyRows(jobs) ==
    {i \in DOMAIN jobs : \E f \in TimeFields \cup TextFields : jobs[i][f] # EmptyStr}

KthRow(rows, k) == CHOOSE i \in rows : Cardinality({j \in rows : j < i}) = k - 1

\* C23: the daily prompt has one block for each job of the selected day that
\* has an entry in at least one of its six fields, in job-list order and with
\* that job's values, and it has the no-entries line exactly when the day
\* has no such job.
C23_PromptListsNonEmptyJobs ==
    out.kind = "dailyPrompt" =>
        /\ Len(out.jobs) = Cardinality(NonEmptyRows(Day(selectedDate).jobs))
        /\ \A k \in DOMAIN out.jobs :
              \A f \in TimeFields \cup TextFields :
                  out.jobs[k][f] =
                      OrDefault(Day(selectedDate).jobs[
                                    KthRow(NonEmptyRows(Day(selectedDate).jobs), k)][f], NA)
        /\ out.noEntries <=> NonEmptyRows(Day(selectedDate).jobs) = {}

C23_Witness ==
    /\ out.kind = "dailyPrompt"
    /\ Len(Day(selectedDate).jobs) = 3
    /\ NonEmptyRows(Day(selectedDate).jobs) = {1, 3}
    /\ Len(out.jobs) = 2
    /\ out.jobs[1].jobNumber = JobNo
    /\ out.jobs[2].jobNumber = NA
    /\ out.jobs[2].travelHomeTime = T1401
    /\ ~out.noEntries

\* The number of rows the weekly export owes a stored date.
RowsOwed(d) == IF NonEmptyRows(Day(d).jobs) = {} THEN 1 ELSE Len(Day(d).jobs)

\* The position of the first row of the k-th date of a list of dates.
RECURSIVE FirstRowOf(_, _)
FirstRowOf(dates, k) ==
    IF k = 1 THEN 1 ELSE FirstRowOf(dates, k - 1) + RowsOwed(dates[k - 1])

\* C24: in the weekly export every selected date has one block of rows, in
\* date order; the first row of the block carries the date, weekday, daily
\* total, daily net and on-call columns, every further row of the block
\* leaves those five empty, and a day with an entry has one row per job of
\* its list, in list order.
C24_SummaryOnFirstRow ==
    out.kind = "weeklyCsv" =>
        /\ Len(out.rows) = FirstRowOf(out.dates, Len(out.dates) + 1) - 1
        /\ \A k \in DOMAIN out.dates :
              /\ out.rows[FirstRowOf(out.dates, k)].date = out.dates[k]
              /\ out.rows[FirstRowOf(out.dates, k)].day = getDayOfWeek(out.dates[k])
              /\ out.rows[FirstRowOf(out.dates, k)].total =
                     formatDecimalHours(Day(out.dates[k]).totalHours)
              /\ out.rows[FirstRowOf(out.dates, k)].net =
                     formatDecimalHours(Day(out.dates[k]).netHours)
              /\ out.rows[FirstRowOf(out.dates, k)].onCall = YesNo(Day(out.dates[k]).isOnCall)
              /\ \A j \in 1..(RowsOwed(out.dates[k]) - 1) :
                    /\ out.rows[FirstRowOf(out.dates, k) + j].date = -1
                    /\ out.rows[FirstRowOf(out.dates, k) + j].day = -1
                    /\ out.rows[FirstRowOf(out.dates, k) + j].total = EmptyStr
                    /\ out.rows[FirstRowOf(out.dates, k) + j].net = EmptyStr
                    /\ out.rows[FirstRowOf(out.dates, k) + j].onCall = ""
              /\ NonEmptyRows(Day(out.dates[k]).jobs) # {} =>
                    \A j \in DOMAIN Day(out.dates[k]).jobs :
                        /\ out.rows[FirstRowOf(out.dates, k) + j - 1].hasJob
                        /\ out.rows[FirstRowOf(out.dates, k) + j - 1].jobId =
                               Day(out.dates[k]).jobs[j].id

C24_Witness ==
    /\ out.kind = "weeklyCsv"
    /\ out.dates = <<1, 2>>
    /\ NonEmptyRows(Day(1).jobs) = {1}
    /\ NonEmptyRows(Day(2).jobs) = {}
    /\ Len(out.rows) = 4
    /\ out.rows[4].date = 2
    /\ out.rows[1].total # <<"0", ".", "0", "0">>

\* The characters of the class [A-Za-z0-9_.-].
KeptChars ==
    {c \in NameChars : c \in {"a", "Z", "5", "_", ".", "-"}}

\* C25: sanitizeFilename gives a string of the same length in which every
\* character of [A-Za-z0-9_.-] stays in its place and every other character
\* is '_', and applying it to its own result changes nothing.
C25_SanitizeFilename ==
    result.done =>
        /\ Len(result.value) = Len(arg)
        /\ \A i \in DOMAIN arg :
              result.value[i] = IF arg[i] \in KeptChars THEN arg[i] ELSE "_"
        /\ result.twice => result.again = result.value

C25_Witness ==
    /\ result.done
    /\ result.twice
    /\ arg = <<"Z", " ", "@">>
    /\ result.value = <<"Z", "_", "_">>
    /\ result.again = <<"Z", "_", "_">>

JobFields == TimeFields \cup TextFields

\* The stored job of date d with the given id, in a Store that has one.
HasJob(wd, d, id) ==
    Has(wd, d) /\ \E j \in DOMAIN Get(wd, d).jobs : Get(wd, d).jobs[j].id = id

JobOf(wd, d, id) ==
    Get(wd, d).jobs[CHOOSE j \in DOMAIN Get(wd, d).jobs : Get(wd, d).jobs[j].id = id]

\* A step that edits the field of the job, and one that removes the job.
EditOf(id, f) ==
    \E e \in StoreEditInputs : e[1] = f /\ HandleJobInputChange(id, f, e[2])

ChangedSinceRequest(n) ==
    /\ effectPending
    /\ \E req \in pendingFetch : req.n = n

Displayed(n) ==
    generatedDailyReport = ReportText(n) \/ generatedWeeklyReport = ReportText(n)

\* C27: a displayed report was generated from the current Store data: the
\* recompute that follows any mutation or date change clears both generated
\* reports, and once the Store has been changed while a request is
\* outstanding, the response to that request is never displayed.
C27_ReportFromCurrentStore ==
    /\ [][Effect => generatedDailyReport' = EmptyStr /\ generatedWeeklyReport' = EmptyStr]_vars
    /\ \A n \in 1..MaxRequest : [](ChangedSinceRequest(n) => [](~Displayed(n)))

\* C28: the recompute effect does not schedule itself again: the render
\* after its Store update has no recompute pending and derives the record
\* the effect stored, and a pending recompute, the one of start-up on an
\* empty Store included, is always followed by a state with none pending.
C28_EffectFixpoint ==
    /\ [][Effect => /\ ~effectPending'
                    /\ Has(weeklyData', selectedDate)
                    /\ currentDayData' = Get(weeklyData', selectedDate)
                    /\ currentDayData'.jobs = currentJobs]_vars
    /\ []<>(~effectPending)

C28_Witness ==
    /\ ~effectPending
    /\ StoredDates = {1, 2}
    /\ ObjectKeys(weeklyData)[1] = 2
    /\ Day(1).isOnCall
    /\ Day(1).jobs[1].travelStartTime = T0800
    /\ Len(Day(2).jobs) = 2

\* A step of the recompute or of a mutation of the selected date.
MutationStep ==
    \/ Effect
    \/ HandleOnCallChange
    \/ HandleAddJob(MaxStoreId)
    \/ \E jobId \in CurrentJobIds : HandleRemoveJob(jobId)
    \/ \E jobId \in CurrentJobIds, e \in ReportEditInputs :
          HandleJobInputChange(jobId, e[1], e[2])

\* C29: only a field edit, an add, a removal, an on-call toggle and the
\* recompute change the Store, and they leave the record stored under every
\* date other than the selected one exactly as it was and add no other key.
C29_OtherDatesUntouched ==
    [][/\ \A d \in StoredDates \ {selectedDate} :
             Has(weeklyData', d) /\ Get(weeklyData', d) = Day(d)
       /\ \A d \in Dates \ {selectedDate} : Has(weeklyData', d) => Has(weeklyData, d)
       /\ weeklyData' = weeklyData \/ MutationStep]_vars

C29_Witness ==
    /\ ~effectPending
    /\ selectedDate = 2
    /\ StoredDates = {1, 2}
    /\ Len(Day(1).jobs) = 2
    /\ Day(1).isOnCall
    /\ Day(1).jobs[1].travelStartTime = T0800
    /\ Len(Day(2).jobs) = 1
    /\ ~Day(2).isOnCall
    /\ Day(2).jobs[1].travelStartTime = T0800

\* The position of the job with the given id in a job list that has one.
PositionOf(jobs, id) == CHOOSE i \in DOMAIN jobs : jobs[i].id = id

\* The ids drawn so far that no job of the selected date has.
UnmatchedIds ==
    {id \in 1..nextId :
        \A i \in DOMAIN Day(selectedDate).jobs : Day(selectedDate).jobs[i].id # id}

\* C30: an edit addressed to a job id leaves the number and the order of the
\* jobs of the selected date and every other job as they were, and sets the
\* field of the addressed job; a removal deletes the addressed job and keeps
\* the others in their order; and either update function, given an id that no
\* job of the selected date has, gives back the same job list.
C30_OnlyAddressedJob ==
    /\ [][/\ \A id \in CurrentJobIds : \A e \in PromptEditInputs :
                 HandleJobInputChange(id, e[1], e[2]) =>
                     /\ Len(Get(weeklyData', selectedDate).jobs) = Len(Day(selectedDate).jobs)
                     /\ \A i \in DOMAIN Day(selectedDate).jobs :
                           IF Day(selectedDate).jobs[i].id = id
                           THEN /\ Get(weeklyData', selectedDate).jobs[i].id = id
                                /\ Get(weeklyData', selectedDate).jobs[i][e[1]] = e[2]
                                /\ \A f \in JobFields \ {e[1]} :
                                      Get(weeklyData', selectedDate).jobs[i][f] =
                                          Day(selectedDate).jobs[i][f]
                           ELSE Get(weeklyData', selectedDate).jobs[i] = Day(selectedDate).jobs[i]
           /\ \A rid \in CurrentJobIds :
                 HandleRemoveJob(rid) =>
                     /\ Len(Get(weeklyData', selectedDate).jobs) = Len(Day(selectedDate).jobs) - 1
                     /\ \A i \in DOMAIN Get(weeklyData', selectedDate).jobs :
                           Get(weeklyData', selectedDate).jobs[i] =
                               IF i < PositionOf(Day(selectedDate).jobs, rid)
                               THEN Day(selectedDate).jobs[i]
                               ELSE Day(selectedDate).jobs[i + 1]]_vars
    /\ [](Has(weeklyData, selectedDate) =>
             \A id \in UnmatchedIds :
                 /\ Get(removeJobUpdate(weeklyData, selectedDate, id), selectedDate).jobs
                        = Day(selectedDate).jobs
                 /\ \A e \in PromptEditInputs :
                       Get(jobInputChangeUpdate(weeklyData, selectedDate, id, e[1], e[2]),
                           selectedDate).jobs = Day(selectedDate).jobs)

C30_Witness ==
    /\ ~effectPending
    /\ Has(weeklyData, selectedDate)
    /\ Ids(weeklyData, selectedDate) = <<2, 3>>
    /\ Day(selectedDate).jobs[1].jobNumber = JobNo
    /\ Day(selectedDate).jobs[1].travelHomeTime = EmptyStr
    /\ Day(selectedDate).jobs[2].jobNumber = EmptyStr
    /\ Day(selectedDate).jobs[2].travelHomeTime = T1401

\* The deductions that apply to a day total: an hour of travel above six
\* hours on a day that is not on call, half an hour of lunch above four hours.
DeductionsOwed(total, isOnCall) ==
    (IF total > 360 /\ ~isOnCall THEN 60 ELSE 0) + (IF total > 240 THEN 30 ELSE 0)

\* C31: for every day total T and on-call flag the recomputed net is between
\* 0 and T and is T minus the applicable deductions exactly; the clamp to 0
\* returns its argument unchanged, the net being at least 211 when the lunch
\* deduction applies and at least 271 when both apply.
C31_ClampNeverChanges ==
    result.done =>
        /\ 0 <= result.value
        /\ result.value <= arg.total
        /\ result.value = arg.total - DeductionsOwed(arg.total, arg.isOnCall)
        /\ result.value = result.unclamped
        /\ arg.total > 240 => result.value >= 211
        /\ arg.total > 360 => result.value >= 271

C31_Witness ==
    /\ result.done
    /\ arg.total = 361
    /\ ~arg.isOnCall
    /\ result.value = 271

RequestPending(n) == \E req \in pendingFetch : req.n = n

AnyResponse ==
    \E outcome \in FetchOutcomes : DailyResponse(outcome) \/ WeeklyResponse(outcome)

C33_PromptAndExportAgree ==
    /\ out.kind = "weeklyCsv" =>
          /\ out.dates = datesToReport(weeklyData, weeklyReportStartDate, weeklyReportEndDate)
          /\ out.totalWeeklyHours = SumOver(weeklyData, out.dates, "totalHours")
          /\ out.totalWeeklyNetHours = SumOver(weeklyData, out.dates, "netHours")
    /\ out.kind = "weeklyPrompt" =>
          /\ out.dates = datesToReportCsv(weeklyData, weeklyReportStartDate, weeklyReportEndDate)
          /\ out.totalWeeklyHours = CsvSumOver(weeklyData, out.dates, "totalHours")
          /\ out.totalWeeklyNetHours = CsvSumOver(weeklyData, out.dates, "netHours")

C33_Witness ==
    /\ out.kind = "weeklyCsv"
    /\ out.dates = <<2>>
    /\ out.totalWeeklyHours = 361
    /\ out.totalWeeklyNetHours = 271
    /\ Has(weeklyData, 1)
    /\ Day(1).totalHours > 0

=============================================================================
